---- MODULE Spec2Model ----
(***************************************************************************)
(* A model of the summer dependency-injection container (package summer):  *)
(* the Container (Add, Get, InjectInto, PerformInjections), the field tag  *)
(* parser and the interfaceSet.                                            *)
(*                                                                         *)
(* Go strings are sequences of one-character strings, so that splitting a  *)
(* tag and comparing a component with "auto" are computed, not assumed.    *)
(* Interface values (dependencies, targets) are identifiers; reflect.Type  *)
(* values are the Go spelling of the type.                                 *)
(***************************************************************************)
EXTENDS Integers, Sequences, FiniteSets, TLC

VARIABLES
    dependenciesByName,    \* Container.dependenciesByName: name -> instance
    dependenciesByType,    \* Container.dependenciesByType: reflect.Type -> instance
    possibleInjectionSet,  \* Container.possibleInjectionSet (interfaceSet.set keys)
    heap,                  \* the fields of every struct a pointer instance points to
    addLog,                \* history: the Add calls made, in order
    nCalls,                \* how many injection calls were made
    last,                  \* the last operation, its arguments and what it returned
    rawTag,                \* parser harness: the annotation string
    parsed                 \* parser harness: what parseFieldTag returned for rawTag

vars == <<dependenciesByName, dependenciesByType, possibleInjectionSet, heap,
          addLog, nCalls, last, rawTag, parsed>>

containerVars == <<dependenciesByName, dependenciesByType, possibleInjectionSet,
                   heap, addLog, nCalls, last>>

parserVars == <<rawTag, parsed>>

----------------------------------------------------------------------------
(* Bounds *)

MaxAdds == 3

MaxCalls == 1

MaxPieces == 5

----------------------------------------------------------------------------
(* Strings *)

Sep == ","

tagAutoInject == <<"a", "u", "t", "o">>

\* strings.Index(s, sep) for a one-character separator: 0 when absent
RECURSIVE IndexFrom(_, _, _)
IndexFrom(s, sep, i) ==
    IF i > Len(s) THEN 0
    ELSE IF s[i] = sep THEN i
    ELSE IndexFrom(s, sep, i + 1)

\* strings.Split(s, sep): every component, an empty string gives one empty component
RECURSIVE Split(_, _)
Split(s, sep) ==
    LET i == IndexFrom(s, sep, 1)
    IN  IF i = 0 THEN <<s>>
        ELSE <<SubSeq(s, 1, i - 1)>> \o Split(SubSeq(s, i + 1, Len(s)), sep)

\* strings.SplitN(s, sep, 2): at most two components, the second is the remainder
SplitN2(s, sep) ==
    LET i == IndexFrom(s, sep, 1)
    IN  IF i = 0 THEN <<s>>
        ELSE <<SubSeq(s, 1, i - 1), SubSeq(s, i + 1, Len(s))>>

----------------------------------------------------------------------------
(* parseFieldTag *)

NoTag == [present |-> FALSE]

\* a parser that takes everything after the first separator as the second part
parseFieldTagTwoParts(tag) ==
    IF tag = <<>> THEN NoTag
    ELSE LET components == SplitN2(tag, Sep)
             shouldAutoInject ==
                 IF Len(components) > 1 THEN components[2] = tagAutoInject
                 ELSE FALSE
         IN  [present |-> TRUE,
              dependencyName |-> components[1],
              autoInject |-> shouldAutoInject]

parseFieldTag(tag) ==
    IF tag = <<>> THEN NoTag
    ELSE LET components == Split(tag, Sep)
             shouldAutoInject ==
                 IF Len(components) > 1 THEN components[2] = tagAutoInject
                 ELSE FALSE
         IN  [present |-> TRUE,
              dependencyName |-> components[1],
              autoInject |-> shouldAutoInject]

----------------------------------------------------------------------------
(* reflect: types, the instances the callers hold, struct layouts *)

\* reflect.Type.Kind() of the types in play
KindOf(t) ==
    CASE t = "string" -> "String"
      [] t = "int" -> "Int"
      [] t \in {"*int", "*One", "*Two", "*Hook", "*Multi", "*Anon"} -> "Ptr"
      [] t \in {"One", "Two", "Hook", "Multi", "Anon"} -> "Struct"
      [] t = "interface{}" -> "Interface"

\* reflect.Type.Elem() of a pointer type
ElemOf(t) ==
    CASE t = "*int" -> "int"
      [] t = "*One" -> "One"
      [] t = "*Two" -> "Two"
      [] t = "*Hook" -> "Hook"
      [] t = "*Multi" -> "Multi"
      [] t = "*Anon" -> "Anon"

\* the values callers pass as interface{}: two strings, an int, a pointer to
\* an int, one pointer to a struct of each struct type, and a struct by value
Strings == {"s_ok", "s_other"}

StructPointers == {"p_one", "p_two", "p_hook", "p_multi", "p_anon"}

Instances == Strings \cup {"i_4", "p_int", "v_hook"} \cup StructPointers

\* reflect.TypeOf(target)
TypeOf(x) ==
    CASE x \in Strings -> "string"
      [] x = "i_4" -> "int"
      [] x = "p_int" -> "*int"
      [] x = "p_one" -> "*One"
      [] x = "p_two" -> "*Two"
      [] x = "p_hook" -> "*Hook"
      [] x = "p_multi" -> "*Multi"
      [] x = "p_anon" -> "*Anon"
      [] x = "v_hook" -> "Hook"

\* the zero value a field holds before anything is assigned to it
Zero == "zero"

Field(name, tag, type, exported) ==
    [name |-> name, tag |-> tag, type |-> type, exported |-> exported]

\* the fields of each struct type, in declaration order, with the value of
\* their `summer:"..."` tag (Tag.Get gives "" when there is none)
FieldsOf(structType) ==
    CASE structType = "One" ->
             <<Field("Two", <<"2">>, "*Two", TRUE)>>
      [] structType = "Two" ->
             <<Field("One", <<"1", ",", "a", "u", "t", "o">>, "*One", TRUE)>>
      [] structType = "Hook" ->
             <<Field("called", <<>>, "bool", FALSE)>>
      [] structType = "Multi" ->
             <<Field("First", <<"x">>, "string", TRUE),
               Field("hidden", <<"z">>, "string", FALSE),
               Field("Second", <<"1">>, "interface{}", TRUE),
               Field("Third", <<",", "a", "u", "t", "o">>, "string", TRUE),
               Field("Fourth", <<"2", ",">>, "*Two", TRUE),
               Field("Plain", <<>>, "int", TRUE)>>
      [] structType = "Anon" ->
             <<Field("Never", <<",">>, "string", TRUE)>>

\* the types with a PostInjectionCallback method (pointer receivers)
PostInjectors == {"*One", "*Hook", "*Multi"}

\* reflect.Value.CanSet() of a field reached through a pointer
CanSet(f) == f.exported

\* whether reflect.Value.Set accepts a value of type t for a field of type ft
AssignableTo(t, ft) == t = ft \/ ft = "interface{}"

----------------------------------------------------------------------------
(* The injection engine.  A call works on m = [heap, hooks, assigned]: the  *)
(* fields as they are at that point of the call, the post-injection hooks  *)
(* run so far (each with the assignments made before it ran) and the       *)
(* fields the call has assigned.  Every step returns [m, err].             *)

NilErr == [kind |-> "nil"]

InvalidTarget == [kind |-> "invalidTarget"]

MissingNamed(dependencyName, elementType, fieldName) ==
    [kind |-> "missingNamed", dependencyName |-> dependencyName,
     elementType |-> elementType, field |-> fieldName]

MissingTyped(matchingType, elementType, fieldName) ==
    [kind |-> "missingTyped", matchingType |-> matchingType,
     elementType |-> elementType, field |-> fieldName]

\* a run-time panic: the call does not return
Panic == [kind |-> "panic"]

Step(m, err) == [m |-> m, err |-> err]

\* p.field.Set(reflect.ValueOf(dependency)): panics unless the value fits
FieldSet(m, target, index, dependency) ==
    IF AssignableTo(TypeOf(dependency), FieldsOf(ElemOf(TypeOf(target)))[index].type)
    THEN Step([m EXCEPT !.heap[target][index] = dependency,
                        !.assigned = @ \cup {<<target, index>>}],
              NilErr)
    ELSE Step(m, Panic)

getDereferencedType(target) ==
    LET targetType == TypeOf(target)
    IN  IF KindOf(targetType) = "Ptr" THEN ElemOf(targetType) ELSE targetType

isPointerToStruct(target) == KindOf(getDereferencedType(target)) = "Struct"

performPostInjectionHook(m, target) ==
    IF TypeOf(target) \in PostInjectors
    THEN [m EXCEPT !.hooks = Append(@, [target |-> target, seen |-> m.assigned])]
    ELSE m

performNamedInjection(m, target, index, dependencyName) ==
    LET typeField == FieldsOf(ElemOf(TypeOf(target)))[index]
    IN  IF dependencyName \in DOMAIN dependenciesByName
        THEN FieldSet(m, target, index, dependenciesByName[dependencyName])
        ELSE Step(m, MissingNamed(dependencyName, ElemOf(TypeOf(target)),
                                  typeField.name))

\* an automatic lookup by the type the field's type points to
performAutoInjectionByElem(m, target, index) ==
    LET typeField == FieldsOf(ElemOf(TypeOf(target)))[index]
        matchingType == IF KindOf(typeField.type) = "Ptr" THEN ElemOf(typeField.type)
                        ELSE typeField.type
    IN  IF matchingType \in DOMAIN dependenciesByType
        THEN FieldSet(m, target, index, dependenciesByType[matchingType])
        ELSE Step(m, MissingTyped(matchingType, ElemOf(TypeOf(target)),
                                  typeField.name))

performAutoInjection(m, target, index) ==
    LET typeField == FieldsOf(ElemOf(TypeOf(target)))[index]
        matchingType == typeField.type
    IN  IF matchingType \in DOMAIN dependenciesByType
        THEN FieldSet(m, target, index, dependenciesByType[matchingType])
        ELSE Step(m, MissingTyped(matchingType, ElemOf(TypeOf(target)),
                                  typeField.name))

performInjection(m, target, index) ==
    LET typeField == FieldsOf(ElemOf(TypeOf(target)))[index]
        tag == parseFieldTag(typeField.tag)
    IN  IF tag.present /\ CanSet(typeField)
        THEN IF ~tag.autoInject
             THEN performNamedInjection(m, target, index, tag.dependencyName)
             ELSE performAutoInjection(m, target, index)
        ELSE Step(m, NilErr)

\* the loop of iterateFields, from field `index` on
RECURSIVE iterateFrom(_, _, _)
iterateFrom(m, target, index) ==
    IF index > Len(FieldsOf(ElemOf(TypeOf(target)))) THEN Step(m, NilErr)
    ELSE LET r == performInjection(m, target, index)
         IN  IF r.err # NilErr THEN r
             ELSE iterateFrom(r.m, target, index + 1)

\* a loop that goes on after a failing field and returns the first error
RECURSIVE iterateAllFrom(_, _, _, _)
iterateAllFrom(m, target, index, first) ==
    IF index > Len(FieldsOf(ElemOf(TypeOf(target)))) THEN Step(m, first)
    ELSE LET r == performInjection(m, target, index)
         IN  iterateAllFrom(r.m, target, index + 1,
                            IF first = NilErr THEN r.err ELSE first)

iterateFieldsKeepGoing(m, target) ==
    IF KindOf(TypeOf(target)) # "Ptr" THEN Step(m, Panic)
    ELSE iterateAllFrom(m, target, 1, NilErr)

\* reflect.ValueOf(target).Elem() panics unless target is a pointer
iterateFields(m, target) ==
    IF KindOf(TypeOf(target)) # "Ptr" THEN Step(m, Panic)
    ELSE iterateFrom(m, target, 1)

\* an injection that runs the hook before the fields are iterated
realInjectIntoHookFirst(m, target, performHook) ==
    IF ~isPointerToStruct(target) THEN Step(m, InvalidTarget)
    ELSE LET hooked == IF performHook THEN performPostInjectionHook(m, target) ELSE m
         IN  iterateFields(hooked, target)

realInjectInto(m, target, performHook) ==
    IF ~isPointerToStruct(target) THEN Step(m, InvalidTarget)
    ELSE LET r == iterateFields(m, target)
         IN  IF r.err # NilErr THEN r
             ELSE IF performHook
                  THEN Step(performPostInjectionHook(r.m, target), NilErr)
                  ELSE r

\* interfaceSet.EachElement with the callback of the first loop of
\* PerformInjections, over the keys in the order the map yields them
RECURSIVE EachInject(_, _)
EachInject(r, order) ==
    IF order = <<>> THEN r
    ELSE IF r.err = NilErr
         THEN EachInject(realInjectInto(r.m, Head(order), FALSE), Tail(order))
         ELSE EachInject(r, Tail(order))

\* interfaceSet.EachElement with the callback of the second loop
RECURSIVE EachHook(_, _)
EachHook(m, order) ==
    IF order = <<>> THEN m
    ELSE EachHook(performPostInjectionHook(m, Head(order)), Tail(order))

\* a bulk injection whose second loop does not look at the error
PerformInjectionsHooksAlways(m, order, hookOrder) ==
    LET r == EachInject(Step(m, NilErr), order)
    IN  Step(EachHook(r.m, hookOrder), r.err)

\* a bulk injection that is InjectInto on each instance in turn
RECURSIVE EachInjectEager(_, _)
EachInjectEager(r, order) ==
    IF order = <<>> THEN r
    ELSE IF r.err = NilErr
         THEN EachInjectEager(realInjectInto(r.m, Head(order), TRUE), Tail(order))
         ELSE EachInjectEager(r, Tail(order))

PerformInjectionsEager(m, order, hookOrder) ==
    EachInjectEager(Step(m, NilErr), order)

PerformInjectionsIn(m, order, hookOrder) ==
    LET r == EachInject(Step(m, NilErr), order)
    IN  IF r.err = NilErr THEN Step(EachHook(r.m, hookOrder), r.err)
        ELSE r

\* the orders in which a map with these keys can be iterated
Orders(set) ==
    {o \in [1..Cardinality(set) -> set] : \A k \in set : \E i \in DOMAIN o : o[i] = k}

----------------------------------------------------------------------------
(* The container's operations *)

Names == {<<>>, <<"1">>, <<"2">>, <<"x">>}

Dep(target, name) == [target |-> target, name |-> name]

\* what the callers register
AddInputs ==
    {Dep("s_ok", <<"x">>), Dep("s_other", <<>>), Dep("p_one", <<"1">>),
     Dep("p_two", <<"2">>), Dep("p_two", <<"x">>), Dep("p_hook", <<>>),
     Dep("p_multi", <<>>), Dep("v_hook", <<>>)}

\* what the callers inject into
Targets == {"i_4", "p_int", "v_hook"} \cup StructPointers

Pending == [pending |-> TRUE]

\* NewContainer(): empty maps, an empty set; every struct new and zeroed
ContainerIdle ==
    /\ dependenciesByName = [n \in {} |-> "nil"]
    /\ dependenciesByType = [t \in {} |-> "nil"]
    /\ possibleInjectionSet = {}
    /\ heap = [o \in StructPointers |->
                  [i \in 1..Len(FieldsOf(ElemOf(TypeOf(o)))) |-> Zero]]
    /\ addLog = <<>>
    /\ nCalls = 0
    /\ last = [op |-> "none"]

Put(map, key, value) ==
    [k \in DOMAIN map \cup {key} |-> IF k = key THEN value ELSE map[k]]

\* interfaceSet.Add
SetAdd(set, target) == set \cup {target}

Init ==
    /\ ContainerIdle
    /\ rawTag = <<>>
    /\ parsed = Pending

\* a name map that also stores the empty name
NewNameAlways(name, target) == Put(dependenciesByName, name, target)

NewName(name, target) ==
    IF name # <<>> THEN Put(dependenciesByName, name, target)
    ELSE dependenciesByName

\* a registration whose type map keeps the first instance of a type
AddKeepFirstType(target, name) ==
    /\ Len(addLog) < MaxAdds
    /\ dependenciesByName' = NewName(name, target)
    /\ dependenciesByType' =
           IF TypeOf(target) \in DOMAIN dependenciesByType THEN dependenciesByType
           ELSE Put(dependenciesByType, TypeOf(target), target)
    /\ possibleInjectionSet' =
           IF isPointerToStruct(target) THEN SetAdd(possibleInjectionSet, target)
           ELSE possibleInjectionSet
    /\ addLog' = Append(addLog, Dep(target, name))
    /\ last' = [op |-> "Add", target |-> target, name |-> name]
    /\ UNCHANGED <<heap, nCalls, parserVars>>

Add(target, name) ==
    /\ Len(addLog) < MaxAdds
    /\ dependenciesByName' = NewName(name, target)
    /\ dependenciesByType' = Put(dependenciesByType, TypeOf(target), target)
    /\ possibleInjectionSet' =
           IF isPointerToStruct(target) THEN SetAdd(possibleInjectionSet, target)
           ELSE possibleInjectionSet
    /\ addLog' = Append(addLog, Dep(target, name))
    /\ last' = [op |-> "Add", target |-> target, name |-> name]
    /\ UNCHANGED <<heap, nCalls, parserVars>>

GetResult(name) ==
    IF name \in DOMAIN dependenciesByName
    THEN [value |-> dependenciesByName[name], found |-> TRUE]
    ELSE [value |-> "nil", found |-> FALSE]

Get(name) ==
    /\ last' = [op |-> "Get", name |-> name, result |-> GetResult(name)]
    /\ UNCHANGED <<dependenciesByName, dependenciesByType, possibleInjectionSet,
                   heap, addLog, nCalls, parserVars>>

Fresh == [heap |-> heap, hooks |-> <<>>, assigned |-> {}]

InjectInto(target) ==
    /\ nCalls < MaxCalls
    /\ LET r == realInjectInto(Fresh, target, TRUE)
       IN  /\ heap' = r.m.heap
           /\ last' = [op |-> "InjectInto", target |-> target, err |-> r.err,
                       hooks |-> r.m.hooks, before |-> heap]
    /\ nCalls' = nCalls + 1
    /\ UNCHANGED <<dependenciesByName, dependenciesByType, possibleInjectionSet,
                   addLog, parserVars>>

\* the orders the second loop can take: they matter only when it runs
HookOrders(order) ==
    IF EachInject(Step(Fresh, NilErr), order).err = NilErr
    THEN Orders(possibleInjectionSet)
    ELSE {order}

PerformInjections ==
    /\ nCalls < MaxCalls
    /\ \E order \in Orders(possibleInjectionSet) :
       \E hookOrder \in HookOrders(order) :
           LET r == PerformInjectionsIn(Fresh, order, hookOrder)
           IN  /\ heap' = r.m.heap
               /\ last' = [op |-> "PerformInjections", err |-> r.err,
                           hooks |-> r.m.hooks, before |-> heap]
    /\ nCalls' = nCalls + 1
    /\ UNCHANGED <<dependenciesByName, dependenciesByType, possibleInjectionSet,
                   addLog, parserVars>>

Next ==
    \/ \E d \in AddInputs : Add(d.target, d.name)
    \/ \E target \in Targets : InjectInto(target)
    \/ PerformInjections

Spec == Init /\ [][Next]_vars

\* registration and lookup alone
NextRegistry ==
    \/ \E d \in AddInputs : Add(d.target, d.name)
    \/ \E name \in Names : Get(name)

SpecRegistry == Init /\ [][NextRegistry]_vars

----------------------------------------------------------------------------
(* The parser on its own: a tag is drawn, then parsed *)

Pieces == {<<"n">>, <<"x">>, <<Sep>>, tagAutoInject, <<"a", "u", "t">>}

RECURSIVE Concat(_)
Concat(ps) == IF ps = <<>> THEN <<>> ELSE Head(ps) \o Concat(Tail(ps))

TagStrings ==
    {Concat(ps) : ps \in UNION {[1..k -> Pieces] : k \in 0..MaxPieces}}

InitParse ==
    /\ rawTag \in TagStrings
    /\ parsed = Pending
    /\ ContainerIdle

Parse ==
    /\ parsed = Pending
    /\ parsed' = parseFieldTag(rawTag)
    /\ UNCHANGED <<rawTag, containerVars>>

NextParse == Parse

SpecParse == InitParse /\ [][NextParse]_vars

----------------------------------------------------------------------------
(* Vocabulary of the properties *)

FieldsAt(x) == FieldsOf(ElemOf(TypeOf(x)))

\* the tagged writable fields of the struct x points to
Tagged(x) ==
    {i \in DOMAIN FieldsAt(x) : FieldsAt(x)[i].tag # <<>> /\ FieldsAt(x)[i].exported}

Request(x, i) == parseFieldTag(FieldsAt(x)[i].tag)

IsNamed(x, i) == i \in Tagged(x) /\ ~Request(x, i).autoInject

IsAuto(x, i) == i \in Tagged(x) /\ Request(x, i).autoInject

\* the field resolves: its dependency is registered and fits the field
Resolves(x, i) ==
    IF Request(x, i).autoInject
    THEN FieldsAt(x)[i].type \in DOMAIN dependenciesByType
    ELSE /\ Request(x, i).dependencyName \in DOMAIN dependenciesByName
         /\ AssignableTo(TypeOf(dependenciesByName[Request(x, i).dependencyName]),
                         FieldsAt(x)[i].type)

\* the instance a resolving field is to hold
Resolved(x, i) ==
    IF Request(x, i).autoInject
    THEN dependenciesByType[FieldsAt(x)[i].type]
    ELSE dependenciesByName[Request(x, i).dependencyName]

\* the Add calls made so far with this name / with an instance of this type
AddsNamed(name) == {k \in DOMAIN addLog : addLog[k].name = name}

AddsTyped(t) == {k \in DOMAIN addLog : TypeOf(addLog[k].target) = t}

Latest(ks) == CHOOSE k \in ks : \A j \in ks : j <= k

\* the index of the field an error names
FieldIndex(x, fieldName) ==
    CHOOSE i \in DOMAIN FieldsAt(x) : FieldsAt(x)[i].name = fieldName

Missing == {"missingNamed", "missingTyped"}

Injected == last.op = "InjectInto" /\ last.target \in StructPointers

Performed == last.op = "PerformInjections"

----------------------------------------------------------------------------
(* Properties *)

\* C1: when InjectInto meets a named-mode field whose name is not registered,
\* every tagged writable field before it having resolved, it returns the
\* missing-dependency error of that field, every tagged writable field before
\* it holds its resolved instance, and every field after it is as it was.
C1_StopsAtMissingName ==
    Injected =>
        \A k \in Tagged(last.target) :
            ( /\ IsNamed(last.target, k)
              /\ Request(last.target, k).dependencyName \notin DOMAIN dependenciesByName
              /\ \A j \in Tagged(last.target) : j < k => Resolves(last.target, j) )
            =>
            ( /\ last.err = MissingNamed(Request(last.target, k).dependencyName,
                                         ElemOf(TypeOf(last.target)),
                                         FieldsAt(last.target)[k].name)
              /\ \A j \in Tagged(last.target) :
                     j < k => heap[last.target][j] = Resolved(last.target, j)
              /\ \A j \in DOMAIN FieldsAt(last.target) :
                     j > k => heap[last.target][j] = last.before[last.target][j]
              /\ \A o \in StructPointers \ {last.target} : heap[o] = last.before[o] )

\* C1 witness: the third named field of Multi failed, the fields before it set
C1_Witness ==
    /\ Injected
    /\ last.target = "p_multi"
    /\ last.err.kind = "missingNamed"
    /\ last.err.field = "Fourth"
    /\ heap["p_multi"][1] = "s_ok"
    /\ heap["p_multi"][2] = Zero
    /\ heap["p_multi"][3] = "p_one"
    /\ heap["p_multi"][4] \in Strings
    /\ heap["p_multi"][5] = Zero

\* the error realInjectInto gives for a registered instance, nothing assigned
FailureOf(x) == realInjectInto(Fresh, x, FALSE).err

AllTagged(set) == UNION {{<<x, i>> : i \in Tagged(x)} : x \in set}

HookRuns(x) == {k \in DOMAIN last.hooks : last.hooks[k].target = x}

\* C3: when PerformInjections succeeds, the hook of every hook-capable instance
\* of the Injectable Set has run exactly once, no other hook has run, and every
\* hook ran after every tagged writable field of every instance was assigned.
C3_HooksOnceAfterAll ==
    (Performed /\ last.err = NilErr) =>
        /\ \A x \in possibleInjectionSet :
               Cardinality(HookRuns(x)) = IF TypeOf(x) \in PostInjectors THEN 1 ELSE 0
        /\ \A k \in DOMAIN last.hooks :
               /\ last.hooks[k].target \in possibleInjectionSet
               /\ AllTagged(possibleInjectionSet) \subseteq last.hooks[k].seen
        /\ \A x \in possibleInjectionSet : \A i \in Tagged(x) :
               heap[x][i] = Resolved(x, i)

\* C3 witness: success over two instances with tagged fields, the hook-capable
\* one registered twice
C3_Witness ==
    /\ Performed
    /\ last.err = NilErr
    /\ {"p_one", "p_two"} \subseteq possibleInjectionSet
    /\ Cardinality({k \in DOMAIN addLog : addLog[k].target = "p_one"}) >= 2
    /\ Len(last.hooks) >= 1

\* C4: PerformInjections over the two instances that reference each other (One
\* by the name of Two, Two by the type of One) returns no error and leaves each
\* holding the other, whatever the order.
C4_Circular ==
    ( /\ Performed
      /\ possibleInjectionSet = {"p_one", "p_two"}
      /\ GetResult(<<"2">>) = [value |-> "p_two", found |-> TRUE] )
    =>
    ( /\ last.err = NilErr
      /\ heap["p_one"][1] = "p_two"
      /\ heap["p_two"][1] = "p_one" )

C4_Witness ==
    /\ Performed
    /\ possibleInjectionSet = {"p_one", "p_two"}
    /\ heap["p_one"][1] = "p_two"
    /\ heap["p_two"][1] = "p_one"
    /\ last.before["p_one"][1] = Zero
    /\ last.before["p_two"][1] = Zero

\* C5: InjectInto on a target that is not a pointer to a struct returns the
\* invalid-target error, writes no field and runs no hook.
C5_NonStructTargetErrors ==
    ( /\ last.op = "InjectInto"
      /\ ~(KindOf(TypeOf(last.target)) = "Ptr"
           /\ KindOf(ElemOf(TypeOf(last.target))) = "Struct") )
    =>
    ( /\ last.err = InvalidTarget
      /\ heap = last.before
      /\ last.hooks = <<>> )

\* C6: InjectInto on a hook-capable target runs its hook exactly once, after
\* every tagged writable field was assigned, when it succeeds, and runs no hook
\* when it does not.
C6_HookOnceOnSuccess ==
    (Injected /\ TypeOf(last.target) \in PostInjectors) =>
        /\ last.err = NilErr =>
               /\ last.hooks = <<[target |-> last.target,
                                  seen |-> {<<last.target, i>> : i \in Tagged(last.target)}]>>
               /\ \A i \in Tagged(last.target) :
                      heap[last.target][i] = Resolved(last.target, i)
        /\ last.err # NilErr => last.hooks = <<>>

\* C6 witness: Multi, with four tagged writable fields, succeeded
C6_Witness ==
    /\ Injected
    /\ last.target = "p_multi"
    /\ last.err = NilErr
    /\ Len(last.hooks) = 1

\* the fields InjectInto reached: all of them, or those up to the failing one
Reached ==
    IF last.err = NilErr THEN DOMAIN FieldsAt(last.target)
    ELSE IF last.err.kind \in Missing
         THEN 1..FieldIndex(last.target, last.err.field)
         ELSE {}

\* C7: the type map holds, for every type, the instance of the most recent Add
\* of that exact type; an automatic-mode field InjectInto reaches gets that
\* instance, and fails as a missing typed dependency iff there was no such Add.
C7_AutoLatestOfType ==
    /\ \A t \in {TypeOf(x) : x \in Instances} \cup {"interface{}"} :
           IF AddsTyped(t) = {} THEN t \notin DOMAIN dependenciesByType
           ELSE /\ t \in DOMAIN dependenciesByType
                /\ dependenciesByType[t] = addLog[Latest(AddsTyped(t))].target
    /\ Injected =>
           \A i \in Reached :
               IsAuto(last.target, i) =>
                   LET t == FieldsAt(last.target)[i].type
                   IN  IF AddsTyped(t) = {}
                       THEN last.err = MissingTyped(t, ElemOf(TypeOf(last.target)),
                                                    FieldsAt(last.target)[i].name)
                       ELSE /\ heap[last.target][i] = addLog[Latest(AddsTyped(t))].target
                            /\ last.err.kind \in Missing =>
                                   i # FieldIndex(last.target, last.err.field)

\* C7 witness: two strings were added, and the automatic field got the second
C7_Witness ==
    /\ Injected
    /\ last.target = "p_multi"
    /\ heap["p_multi"][4] = "s_other"
    /\ \E k \in DOMAIN addLog : addLog[k].target = "s_ok"

\* C8: Get finds a name iff an Add was made with it and it is not empty, and
\* then gives the instance of the most recent such Add; the empty name is never
\* found, and a named-mode field with an empty name always fails.
C8_GetLatestOfName ==
    /\ \A name \in Names :
           GetResult(name) =
               IF name # <<>> /\ AddsNamed(name) # {}
               THEN [value |-> addLog[Latest(AddsNamed(name))].target, found |-> TRUE]
               ELSE [value |-> "nil", found |-> FALSE]
    /\ last.op = "Get" =>
           /\ last.result.found <=> (last.name # <<>> /\ AddsNamed(last.name) # {})
           /\ last.result.found =>
                  last.result.value = addLog[Latest(AddsNamed(last.name))].target
           /\ ~last.result.found => last.result.value = "nil"
    /\ realInjectInto(Fresh, "p_anon", TRUE).err = MissingNamed(<<>>, "Anon", "Never")

\* C8 witness: a name registered twice, Get gave the second instance
C8_Witness ==
    /\ last.op = "Get"
    /\ last.name = <<"x">>
    /\ last.result = [value |-> "p_two", found |-> TRUE]
    /\ \E k \in DOMAIN addLog : addLog[k] = Dep("s_ok", <<"x">>)
    /\ AddsNamed(<<>>) # {}

IsPrefix(p, s) == Len(p) <= Len(s) /\ SubSeq(s, 1, Len(p)) = p

Chars(s) == {s[i] : i \in DOMAIN s}

\* the name is the text before the first separator
NameIsFirstPart ==
    /\ Sep \notin Chars(parsed.dependencyName)
    /\ \/ rawTag = parsed.dependencyName
       \/ IsPrefix(parsed.dependencyName \o <<Sep>>, rawTag)

\* C9 (as amended): no request iff the string is empty; otherwise the name is
\* the text before the first separator, and autoInject holds iff the text
\* between the first separator and the next (or the end) is "auto".
C9_ParseAmended ==
    parsed # Pending =>
        /\ (parsed = NoTag) <=> (rawTag = <<>>)
        /\ rawTag # <<>> =>
               /\ parsed.present
               /\ NameIsFirstPart
               /\ parsed.autoInject <=>
                      \/ rawTag = parsed.dependencyName \o <<Sep>> \o tagAutoInject
                      \/ IsPrefix(parsed.dependencyName \o <<Sep>> \o tagAutoInject
                                      \o <<Sep>>, rawTag)
        /\ rawTag = <<"n">> => parsed.dependencyName = <<"n">> /\ ~parsed.autoInject
        /\ rawTag = <<"n", Sep>> => parsed.dependencyName = <<"n">> /\ ~parsed.autoInject
        /\ rawTag = <<Sep>> \o tagAutoInject =>
               parsed.dependencyName = <<>> /\ parsed.autoInject

\* C9 witness: "n,auto,x" parsed as automatic
C9_Witness ==
    /\ rawTag = <<"n", Sep>> \o tagAutoInject \o <<Sep, "x">>
    /\ parsed # Pending
    /\ parsed.dependencyName = <<"n">>
    /\ parsed.autoInject

\* C9 as stated: at most two parts, autoInject iff everything after the first
\* separator is "auto"
C9_ParseTwoParts ==
    parsed # Pending =>
        /\ (parsed = NoTag) <=> (rawTag = <<>>)
        /\ rawTag # <<>> =>
               /\ NameIsFirstPart
               /\ parsed.autoInject <=>
                      rawTag = parsed.dependencyName \o <<Sep>> \o tagAutoInject

\* C10: InjectInto and PerformInjections end by returning no error or one of
\* the three error kinds.
C10_AlwaysReturns ==
    last.op \in {"InjectInto", "PerformInjections"} =>
        last.err.kind \in {"nil", "invalidTarget", "missingNamed", "missingTyped"}

====
